---- MODULE Spec2Model ----
(***************************************************************************)
(* A model of oscar.apps.catalogue.views: the request handling of          *)
(* ProductDetailView and ProductCategoryView.  One request is handled at a *)
(* time by a fresh view instance; pc is the position inside the view's     *)
(* get().  log records, in order, every query or collaborator call the     *)
(* view issues; signals records every product_viewed signal sent.          *)
(***************************************************************************)
EXTENDS Integers, Sequences, FiniteSets, TLC

\* ------------------------------------------------------------------ bounds
\* Longest request path (in characters) a request is drawn with.
MaxPathLen == 2
\* Largest primary key a request may name (keys above the tables' are absent).
MaxPk == 5

\* ------------------------------------------------------- values and tables
\* Python's None, for a primary key or an unset attribute.
None == 0

ACTIVE == "Active"
CANCELLED == "Cancelled"
APPROVED == "Approved"
REJECTED == "Rejected"

\* The characters request paths are made of: "/" and letters are left alone
\* by urlquote, the space and the percent sign are not.
PathChars == {"/", "a", "b", " ", "%"}

SafeChars == {"/", "a", "b", "_", ".", "-", "0", "2", "5"}

\* The products of the catalogue.  Product 2 is a variant of product 1.
ProductTable ==
    [pk \in 1..4 |->
        CASE pk = 1 -> [parent |-> None, url |-> <<"/", "a">>,
                        categories |-> {1, 2}, browsable |-> TRUE,
                        upc |-> "A1", class |-> "books"]
          [] pk = 2 -> [parent |-> 1, url |-> <<"/", "b">>,
                        categories |-> {2}, browsable |-> FALSE,
                        upc |-> "A2", class |-> "books"]
          [] pk = 3 -> [parent |-> None, url |-> <<"/", "%", "2", "0">>,
                        categories |-> {2, 3}, browsable |-> TRUE,
                        upc |-> "A3", class |-> "books"]
          [] OTHER  -> [parent |-> None, url |-> <<"/", "b", "a">>,
                        categories |-> {4}, browsable |-> TRUE,
                        upc |-> "A4", class |-> "music"]]

\* The category tree: 1 > 2 > 3, and 4 a second root.  The canonical URL of
\* category 3 (like that of product 3) holds a percent-escaped character.
CategoryTable ==
    [pk \in 1..4 |->
        CASE pk = 1 -> [parent |-> None, slug |-> "books", name |-> "Books",
                        full_name |-> "Books", url |-> <<"/", "a">>]
          [] pk = 2 -> [parent |-> 1, slug |-> "fiction", name |-> "Fiction",
                        full_name |-> "Books > Fiction", url |-> <<"/", "b">>]
          [] pk = 3 -> [parent |-> 2, slug |-> "sci-fi", name |-> "Sci Fi",
                        full_name |-> "Books > Fiction > Sci Fi",
                        url |-> <<"/", "%", "2", "0">>]
          [] OTHER  -> [parent |-> None, slug |-> "music", name |-> "Music",
                        full_name |-> "Music", url |-> <<"/", "a", "b">>]]

ReviewTable ==
    { [id |-> 1, product |-> 1, status |-> APPROVED],
      [id |-> 2, product |-> 1, status |-> REJECTED],
      [id |-> 3, product |-> 3, status |-> APPROVED] }

AlertTable ==
    { [user |-> 1, product |-> 1, status |-> ACTIVE],
      [user |-> 2, product |-> 1, status |-> CANCELLED],
      [user |-> 1, product |-> 3, status |-> CANCELLED],
      [user |-> 2, product |-> 3, status |-> ACTIVE],
      [user |-> 2, product |-> 3, status |-> CANCELLED] }

AnonymousUser == [is_authenticated |-> FALSE, id |-> None]

Users == {AnonymousUser} \cup {[is_authenticated |-> TRUE, id |-> u] : u \in 1..2}

Slugs == {CategoryTable[c].slug : c \in DOMAIN CategoryTable} \cup {"gone"}

Paths == UNION {[1..n -> PathChars] : n \in 1..MaxPathLen}

\* The keyword arguments the URL resolver hands to a view.
ProductKwargs ==
    {[keys |-> {"pk"}, pk |-> k, category_slug |-> ""] : k \in 1..MaxPk}

CategoryKwargs ==
    {[keys |-> {}, pk |-> None, category_slug |-> ""]}
    \cup {[keys |-> {"pk"}, pk |-> k, category_slug |-> ""] : k \in 1..MaxPk}
    \cup {[keys |-> {"category_slug"}, pk |-> None, category_slug |-> s] : s \in Slugs}
    \cup {[keys |-> {"pk", "category_slug"}, pk |-> k, category_slug |-> s] :
             k \in 1..MaxPk, s \in Slugs}

\* ------------------------------------------------------------ responses
NoResponse == [status |-> "None", location |-> <<>>]

HttpResponsePermanentRedirect(url) == [status |-> "301", location |-> url]

TemplateResponse == [status |-> "200", location |-> <<>>]

Http404 == [status |-> "404", location |-> <<>>]

\* ------------------------------------------------------------ sequences
Range(s) == {s[i] : i \in DOMAIN s}

NoDuplicates(s) == \A i, j \in DOMAIN s : s[i] = s[j] => i = j

Min(S) == CHOOSE x \in S : \A y \in S : x <= y

RECURSIVE SortedSeq(_)
SortedSeq(S) ==
    IF S = {} THEN <<>> ELSE <<Min(S)>> \o SortedSeq(S \ {Min(S)})

RECURSIVE Flatten(_)
Flatten(ss) == IF ss = <<>> THEN <<>> ELSE Head(ss) \o Flatten(Tail(ss))

\* -------------------------------------------------------------- urlquote
\* django.utils.http.urlquote(path, safe='/'): every character outside the
\* unreserved set and "/" becomes its percent-encoded form.
PercentEncode(c) ==
    CASE c = " " -> <<"%", "2", "0">>
      [] c = "%" -> <<"%", "2", "5">>
      [] OTHER   -> <<c>>

RECURSIVE urlquote(_)
urlquote(s) ==
    IF s = <<>> THEN <<>>
    ELSE (IF Head(s) \in SafeChars THEN <<Head(s)>> ELSE PercentEncode(Head(s)))
         \o urlquote(Tail(s))

\* ------------------------------------------------------------ the models
\* Product.is_variant: the product has a parent.
is_variant(product) == ProductTable[product].parent # None

\* Product.get_absolute_url / Category.get_absolute_url: the one canonical
\* URL of the entity, already URL-escaped.
product_get_absolute_url(product) == ProductTable[product].url

category_get_absolute_url(cat) == CategoryTable[cat].url

\* Category.get_descendants_and_self: the descendants in tree order, then
\* the category itself.
Children(cat) == {c \in DOMAIN CategoryTable : CategoryTable[c].parent = cat}

RECURSIVE get_descendants(_)
get_descendants(cat) ==
    LET kids == SortedSeq(Children(cat))
    IN  Flatten([i \in DOMAIN kids |-> <<kids[i]>> \o get_descendants(kids[i])])

get_descendants_and_self(cat) == get_descendants(cat) \o <<cat>>

\* The ancestors of a category, nearest first.
RECURSIVE get_ancestors(_)
get_ancestors(cat) ==
    IF CategoryTable[cat].parent = None THEN <<>>
    ELSE <<CategoryTable[cat].parent>> \o get_ancestors(CategoryTable[cat].parent)

\* Product.browsable.base_queryset(): the browsable products, by key.
base_queryset == SortedSeq({p \in DOMAIN ProductTable : ProductTable[p].browsable})

\* qs.filter(categories__in=categories): the join of the products with their
\* category memberships, one row for every membership in one of categories.
filter_categories_in(qs, categories) ==
    Flatten([i \in DOMAIN qs |->
        LET hits == SortedSeq(ProductTable[qs[i]].categories \cap Range(categories))
        IN  [j \in DOMAIN hits |-> qs[i]]])

\* Mutant of distinct: the call is left out.
distinct_LeftOut(qs) == qs

\* qs.distinct(): every row once, in the order of first appearance.
RECURSIVE distinct(_)
distinct(qs) ==
    IF qs = <<>> THEN <<>>
    ELSE LET front == distinct(SubSeq(qs, 1, Len(qs) - 1))
             last  == qs[Len(qs)]
         IN  IF last \in Range(front) THEN front ELSE Append(front, last)

\* --------------------------------------------------------------- state
VARIABLES
    view,               \* the view class handling the request
    enforce_paths,      \* the view's enforce_paths attribute
    use_search_backend, \* ProductCategoryView.use_search_backend
    template_name,      \* ProductDetailView's template_name override (or "")
    kwargs,             \* self.kwargs
    path,               \* request.path
    user,               \* request.user
    pc,                 \* the position in get()
    object,             \* self.object (None: not set)
    category,           \* self.category (None: no category)
    descendants,        \* self._descendants: [set, val]
    object_list,        \* self.object_list: [kind, rows, narrow]
    context,            \* the template context built so far
    response,           \* the local variable response of get()
    returned,           \* what get() returned or raised (NoResponse: nothing yet)
    log,                \* the queries and collaborator calls issued, in order
    signals             \* the product_viewed signals sent, in order

vars == <<view, enforce_paths, use_search_backend, template_name, kwargs, path,
          user, pc, object, category, descendants, object_list, context,
          response, returned, log, signals>>

config == <<view, enforce_paths, use_search_backend, template_name, kwargs, path, user>>

request == [path |-> path, user |-> user]

NoDescendants == [set |-> FALSE, val |-> <<>>]

NoObjectList == [kind |-> "None", rows |-> <<>>, narrow |-> <<>>]

NoContext ==
    [built |-> FALSE, product |-> None, reviews |-> {}, alert_form |-> [user |-> AnonymousUser, product |-> None],
     has_active_alert |-> FALSE, category |-> None, summary |-> "",
     has_facets |-> FALSE, templates |-> <<>>]

\* A fresh view instance handed a request by the URL resolver.
NewView ==
    /\ view \in {"ProductDetailView", "ProductCategoryView"}
    /\ enforce_paths \in BOOLEAN
    /\ use_search_backend \in (IF view = "ProductCategoryView" THEN BOOLEAN ELSE {TRUE})
    /\ template_name \in (IF view = "ProductDetailView" THEN {"", "custom.html"} ELSE {""})
    /\ kwargs \in (IF view = "ProductDetailView" THEN ProductKwargs ELSE CategoryKwargs)
    /\ path \in Paths
    /\ user \in Users
    /\ pc = "get_object"
    /\ object = None
    /\ category = None
    /\ descendants = NoDescendants
    /\ object_list = NoObjectList
    /\ context = NoContext
    /\ response = NoResponse
    /\ returned = NoResponse
    /\ log = <<>>
    /\ signals = <<>>

Init == NewView

\* ------------------------------------------------------ ProductDetailView
\* get_object: self.object when it is already set, else DetailView's
\* lookup by primary key, which raises Http404 when no product matches.
PD_get_object(obj, kw) ==
    IF obj # None
    THEN [found |-> TRUE, object |-> obj, queries |-> <<>>]
    ELSE IF kw.pk \in DOMAIN ProductTable
         THEN [found |-> TRUE, object |-> kw.pk, queries |-> <<"Product.get">>]
         ELSE [found |-> FALSE, object |-> None, queries |-> <<"Product.get">>]

\* Mutant of PD_redirect_if_necessary: the variant branch is missing.
PD_redirect_if_necessary_NoVariantBranch(enforce, current_path, product) ==
    IF enforce
    THEN LET expected_path == product_get_absolute_url(product)
         IN  IF expected_path # urlquote(current_path)
             THEN HttpResponsePermanentRedirect(expected_path)
             ELSE NoResponse
    ELSE NoResponse

\* Mutant of PD_redirect_if_necessary: the current path is compared unescaped.
PD_redirect_if_necessary_Unquoted(enforce, current_path, product) ==
    IF enforce
    THEN IF is_variant(product)
         THEN HttpResponsePermanentRedirect(
                  product_get_absolute_url(ProductTable[product].parent))
         ELSE LET expected_path == product_get_absolute_url(product)
              IN  IF expected_path # current_path
                  THEN HttpResponsePermanentRedirect(expected_path)
                  ELSE NoResponse
    ELSE NoResponse

PD_redirect_if_necessary(enforce, current_path, product) ==
    IF enforce
    THEN IF is_variant(product)
         THEN HttpResponsePermanentRedirect(
                  product_get_absolute_url(ProductTable[product].parent))
         ELSE LET expected_path == product_get_absolute_url(product)
              IN  IF expected_path # urlquote(current_path)
                  THEN HttpResponsePermanentRedirect(expected_path)
                  ELSE NoResponse
    ELSE NoResponse

get_reviews(product) ==
    {r \in ReviewTable : r.product = product /\ r.status = APPROVED}

get_alert_form(usr, product) == [user |-> usr, product |-> product]

\* Mutant of get_alert_status: the status filter is missing.
get_alert_status_AnyStatus(usr, product) ==
    IF usr.is_authenticated
    THEN LET alerts == {a \in AlertTable : a.product = product /\ a.user = usr.id}
         IN  [has_alert |-> alerts # {}, queries |-> <<"ProductAlert.filter">>]
    ELSE [has_alert |-> FALSE, queries |-> <<>>]

\* get_alert_status: the flag, and the queries made to compute it.
get_alert_status(usr, product) ==
    IF usr.is_authenticated
    THEN LET alerts == {a \in AlertTable : /\ a.product = product
                                           /\ a.user = usr.id
                                           /\ a.status = ACTIVE}
         IN  [has_alert |-> alerts # {}, queries |-> <<"ProductAlert.filter">>]
    ELSE [has_alert |-> FALSE, queries |-> <<>>]

get_template_names(name, product) ==
    IF name # "" THEN << [template |-> name, arg |-> ""] >>
    ELSE << [template |-> "catalogue/detail-for-upc-%s.html",
             arg |-> ProductTable[product].upc],
            [template |-> "catalogue/detail-for-class-%s.html",
             arg |-> ProductTable[product].class],
            [template |-> "catalogue/detail.html", arg |-> ""] >>

\* send_signal: the keyword arguments of view_signal.send.
send_signal(req, resp, product) ==
    [sender |-> "ProductDetailView", product |-> product, user |-> req.user,
     request |-> req, response |-> resp]

\* get(), line 33: self.object = product = self.get_object()
PD_GetObject ==
    /\ view = "ProductDetailView" /\ pc = "get_object"
    /\ LET r == PD_get_object(object, kwargs)
       IN  /\ log' = log \o r.queries
           /\ object' = r.object
           /\ IF r.found
              THEN pc' = "redirect_if_necessary" /\ returned' = returned
              ELSE pc' = "done" /\ returned' = Http404
    /\ UNCHANGED <<config, category, descendants, object_list, context,
                   response, signals>>

\* get(), lines 35-37
PD_RedirectIfNecessary ==
    /\ view = "ProductDetailView" /\ pc = "redirect_if_necessary"
    /\ LET redirect == PD_redirect_if_necessary(enforce_paths, path, object)
       IN  IF redirect # NoResponse
           THEN pc' = "done" /\ returned' = redirect
           ELSE pc' = "get_context_data" /\ returned' = returned
    /\ UNCHANGED <<config, object, category, descendants, object_list, context,
                   response, log, signals>>

\* get(), line 39, DetailView.get: self.object = self.get_object();
\* context = self.get_context_data(object=self.object)
PD_GetContextData ==
    /\ view = "ProductDetailView" /\ pc = "get_context_data"
    /\ LET r      == PD_get_object(object, kwargs)
           status == get_alert_status(user, r.object)
       IN  /\ object' = r.object
           /\ context' = [context EXCEPT
                            !.built = TRUE,
                            !.product = r.object,
                            !.reviews = get_reviews(r.object),
                            !.alert_form = get_alert_form(user, r.object),
                            !.has_active_alert = status.has_alert]
           /\ log' = log \o r.queries \o <<"ProductReview.filter", "ProductAlertForm">>
                         \o status.queries
    /\ pc' = "render_to_response"
    /\ UNCHANGED <<config, category, descendants, object_list, response,
                   returned, signals>>

\* get(), line 39, DetailView.get: return self.render_to_response(context)
PD_RenderToResponse ==
    /\ view = "ProductDetailView" /\ pc = "render_to_response"
    /\ context' = [context EXCEPT !.templates = get_template_names(template_name, object)]
    /\ response' = TemplateResponse
    /\ log' = Append(log, "render")
    /\ pc' = "send_signal"
    /\ UNCHANGED <<config, object, category, descendants, object_list,
                   returned, signals>>

\* Mutant of PD_SendSignal: the signal is not sent.
PD_SendSignal_NotSent ==
    /\ view = "ProductDetailView" /\ pc = "send_signal"
    /\ pc' = "return"
    /\ UNCHANGED <<config, object, category, descendants, object_list, context,
                   response, returned, log, signals>>

\* get(), line 40: self.send_signal(request, response, product)
PD_SendSignal ==
    /\ view = "ProductDetailView" /\ pc = "send_signal"
    /\ signals' = Append(signals, send_signal(request, response, object))
    /\ log' = Append(log, "product_viewed.send")
    /\ pc' = "return"
    /\ UNCHANGED <<config, object, category, descendants, object_list, context,
                   response, returned>>

\* get(), line 41: return response
PD_Return ==
    /\ view = "ProductDetailView" /\ pc = "return"
    /\ returned' = response
    /\ pc' = "done"
    /\ UNCHANGED <<config, object, category, descendants, object_list, context,
                   response, log, signals>>

\* ---------------------------------------------------- ProductCategoryView
\* get_object_or_404(Category, ...): the categories matching, of which the
\* lookup wants exactly one.
CategoriesByPk(pk) == {c \in DOMAIN CategoryTable : c = pk}

CategoriesBySlug(slug) == {c \in DOMAIN CategoryTable : CategoryTable[c].slug = slug}

\* Mutant of PC_get_object: the slug is looked at before the identifier.
PC_get_object_SlugFirst(kw) ==
    IF "category_slug" \in kw.keys
    THEN LET m == CategoriesBySlug(kw.category_slug)
         IN  IF m # {}
             THEN [found |-> TRUE, category |-> Min(m), queries |-> <<"Category.get(slug)">>]
             ELSE [found |-> FALSE, category |-> None, queries |-> <<"Category.get(slug)">>]
    ELSE IF "pk" \in kw.keys
    THEN LET m == CategoriesByPk(kw.pk)
         IN  IF m # {}
             THEN [found |-> TRUE, category |-> Min(m), queries |-> <<"Category.get(pk)">>]
             ELSE [found |-> FALSE, category |-> None, queries |-> <<"Category.get(pk)">>]
    ELSE [found |-> TRUE, category |-> None, queries |-> <<>>]

\* Mutant of PC_get_object: a lookup that matches nothing yields no category
\* instead of raising Http404.
PC_get_object_NoneOnMiss(kw) ==
    IF "pk" \in kw.keys
    THEN LET m == CategoriesByPk(kw.pk)
         IN  [found |-> TRUE, category |-> IF m # {} THEN Min(m) ELSE None,
              queries |-> <<"Category.get(pk)">>]
    ELSE IF "category_slug" \in kw.keys
    THEN LET m == CategoriesBySlug(kw.category_slug)
         IN  [found |-> TRUE, category |-> IF m # {} THEN Min(m) ELSE None,
              queries |-> <<"Category.get(slug)">>]
    ELSE [found |-> TRUE, category |-> None, queries |-> <<>>]

\* get_object: the category (None: none), whether the lookup found one, and
\* the queries made.
PC_get_object(kw) ==
    IF "pk" \in kw.keys
    THEN LET m == CategoriesByPk(kw.pk)
         IN  IF m # {}
             THEN [found |-> TRUE, category |-> Min(m), queries |-> <<"Category.get(pk)">>]
             ELSE [found |-> FALSE, category |-> None, queries |-> <<"Category.get(pk)">>]
    ELSE IF "category_slug" \in kw.keys
    THEN LET m == CategoriesBySlug(kw.category_slug)
         IN  IF m # {}
             THEN [found |-> TRUE, category |-> Min(m), queries |-> <<"Category.get(slug)">>]
             ELSE [found |-> FALSE, category |-> None, queries |-> <<"Category.get(slug)">>]
    ELSE [found |-> TRUE, category |-> None, queries |-> <<>>]

\* Mutant of PC_redirect_if_necessary: enforce_paths is not consulted.
PC_redirect_if_necessary_AlwaysEnforced(enforce, current_path, cat) ==
    IF cat # None
    THEN LET expected_path == category_get_absolute_url(cat)
         IN  IF expected_path # urlquote(current_path)
             THEN HttpResponsePermanentRedirect(expected_path)
             ELSE NoResponse
    ELSE NoResponse

PC_redirect_if_necessary(enforce, current_path, cat) ==
    IF enforce /\ cat # None
    THEN LET expected_path == category_get_absolute_url(cat)
         IN  IF expected_path # urlquote(current_path)
             THEN HttpResponsePermanentRedirect(expected_path)
             ELSE NoResponse
    ELSE NoResponse

\* get_categories: the value returned; it is also what self._descendants
\* holds afterwards.
get_categories(cat, memo) ==
    IF ~memo.set
    THEN IF cat = None THEN <<>> ELSE get_descendants_and_self(cat)
    ELSE memo.val

get_summary(cat) == IF cat # None THEN CategoryTable[cat].name ELSE "All products"

\* get_search_queryset: the search query, narrowed to the full names of the
\* categories when there are any.  The rows are the search backend's.
get_search_queryset(cat, memo) ==
    LET categories == get_categories(cat, memo)
    IN  [kind |-> "search", rows |-> <<>>,
         narrow |-> [i \in DOMAIN categories |-> CategoryTable[categories[i]].full_name],
         memo |-> [set |-> TRUE, val |-> categories]]

get_model_queryset(cat, memo) ==
    LET qs == base_queryset
    IN  IF cat # None
        THEN LET categories == get_categories(cat, memo)
             IN  [kind |-> "model",
                  rows |-> distinct(filter_categories_in(qs, categories)),
                  narrow |-> <<>>,
                  memo |-> [set |-> TRUE, val |-> categories]]
        ELSE [kind |-> "model", rows |-> qs, narrow |-> <<>>, memo |-> memo]

get_queryset(search, cat, memo) ==
    IF search THEN get_search_queryset(cat, memo) ELSE get_model_queryset(cat, memo)

\* get(), line 140: self.get_object()
PC_GetObject ==
    /\ view = "ProductCategoryView" /\ pc = "get_object"
    /\ LET r == PC_get_object(kwargs)
       IN  /\ log' = log \o r.queries
           /\ category' = r.category
           /\ IF r.found
              THEN pc' = "redirect_if_necessary" /\ returned' = returned
              ELSE pc' = "done" /\ returned' = Http404
    /\ UNCHANGED <<config, object, descendants, object_list, context,
                   response, signals>>

\* Mutant of PC_RedirectIfNecessary: the redirect is computed but not returned.
PC_RedirectIfNecessary_NotReturned ==
    /\ view = "ProductCategoryView" /\ pc = "redirect_if_necessary"
    /\ pc' = "get_queryset"
    /\ UNCHANGED <<config, object, category, descendants, object_list, context,
                   response, returned, log, signals>>

\* get(), lines 141-143
PC_RedirectIfNecessary ==
    /\ view = "ProductCategoryView" /\ pc = "redirect_if_necessary"
    /\ LET redirect == PC_redirect_if_necessary(enforce_paths, path, category)
       IN  IF redirect # NoResponse
           THEN pc' = "done" /\ returned' = redirect
           ELSE pc' = "get_queryset" /\ returned' = returned
    /\ UNCHANGED <<config, object, category, descendants, object_list, context,
                   response, log, signals>>

\* get(), line 144, ListView.get: self.object_list = self.get_queryset()
PC_GetQueryset ==
    /\ view = "ProductCategoryView" /\ pc = "get_queryset"
    /\ LET qs == get_queryset(use_search_backend, category, descendants)
       IN  /\ object_list' = [kind |-> qs.kind, rows |-> qs.rows, narrow |-> qs.narrow]
           /\ descendants' = qs.memo
           /\ log' = Append(log, IF use_search_backend THEN "search" ELSE "Product.browsable")
    /\ pc' = "get_context_data"
    /\ UNCHANGED <<config, object, category, context, response, returned, signals>>

\* get(), line 144, ListView.get: context = self.get_context_data(...).
\* The facet counts are the search backend's answer.
PC_GetContextData ==
    /\ view = "ProductCategoryView" /\ pc = "get_context_data"
    /\ \E facets \in (IF use_search_backend THEN BOOLEAN ELSE {FALSE}) :
          context' = [context EXCEPT
                        !.built = TRUE,
                        !.category = category,
                        !.summary = get_summary(category),
                        !.has_facets = facets]
    /\ log' = log \o (IF use_search_backend THEN <<"facet_counts">> ELSE <<>>)
    /\ pc' = "render_to_response"
    /\ UNCHANGED <<config, object, category, descendants, object_list,
                   response, returned, signals>>

\* get(), line 144, ListView.get: return self.render_to_response(context)
PC_RenderToResponse ==
    /\ view = "ProductCategoryView" /\ pc = "render_to_response"
    /\ response' = TemplateResponse
    /\ returned' = TemplateResponse
    /\ log' = Append(log, "render")
    /\ pc' = "done"
    /\ UNCHANGED <<config, object, category, descendants, object_list, context,
                   signals>>

\* ------------------------------------------------------- specification
\* One behaviour is one request: a view instance handles a single request
\* and keeps no state afterwards.
Next ==
    \/ PD_GetObject
    \/ PD_RedirectIfNecessary
    \/ PD_GetContextData
    \/ PD_RenderToResponse
    \/ PD_SendSignal
    \/ PD_Return
    \/ PC_GetObject
    \/ PC_RedirectIfNecessary
    \/ PC_GetQueryset
    \/ PC_GetContextData
    \/ PC_RenderToResponse

Spec == Init /\ [][Next]_vars

\* ================================================================ claims
PDV == view = "ProductDetailView"

PCV == view = "ProductCategoryView"

\* The product or category of the request has been resolved.
ProductResolved == PDV /\ object # None

CategoryResolved == PCV /\ pc # "get_object" /\ returned # Http404

Fetches == {"Product.get", "Category.get(pk)", "Category.get(slug)"}

Count(s, S) == Cardinality({i \in DOMAIN s : s[i] \in S})

Position(s, e) == Min({i \in DOMAIN s : s[i] = e})

\* Nothing beyond the resolving fetch has happened in this request.
OnlyFetched ==
    /\ Len(log) = 1 /\ log[1] \in Fetches
    /\ ~context.built /\ context = NoContext
    /\ object_list = NoObjectList
    /\ descendants = NoDescendants
    /\ response = NoResponse
    /\ signals = <<>>

\* C1 (as claimed): for a variant product, whatever the path and whatever
\* the view's configuration, redirect_if_necessary returns a permanent
\* redirect to the parent's canonical URL, never None and never the
\* variant's own URL; and that is what get() returns.
C1_VariantRedirectsInEveryConfiguration ==
    (ProductResolved /\ is_variant(object)) =>
        LET parent == ProductTable[object].parent
            r      == PD_redirect_if_necessary(enforce_paths, path, object)
        IN  /\ r = HttpResponsePermanentRedirect(product_get_absolute_url(parent))
            /\ r # NoResponse
            /\ r.location # product_get_absolute_url(object)
            /\ pc = "done" => returned = r

\* C1 (amended): the same, for a view whose enforce_paths is true.
C1_VariantRedirectsWhenEnforced ==
    (ProductResolved /\ is_variant(object) /\ enforce_paths) =>
        LET parent == ProductTable[object].parent
            r      == PD_redirect_if_necessary(enforce_paths, path, object)
        IN  /\ r = HttpResponsePermanentRedirect(product_get_absolute_url(parent))
            /\ r # NoResponse
            /\ r.location # product_get_absolute_url(object)
            /\ pc = "done" => returned = r

\* C1 witness: a variant requested at its own canonical URL was redirected
\* to its parent's.
C1_Witness ==
    /\ ProductResolved /\ is_variant(object) /\ enforce_paths
    /\ urlquote(path) = product_get_absolute_url(object)
    /\ pc = "done"
    /\ returned.status = "301"

\* C2 (as claimed): for a non-variant product, redirect_if_necessary returns
\* None exactly when the URL-escaped path equals the canonical URL, and
\* otherwise a permanent redirect to the canonical URL.
C2_NonVariantNullIffCanonical ==
    (ProductResolved /\ ~is_variant(object)) =>
        LET canonical == product_get_absolute_url(object)
            r         == PD_redirect_if_necessary(enforce_paths, path, object)
        IN  /\ (r = NoResponse) <=> (urlquote(path) = canonical)
            /\ r # NoResponse => r = HttpResponsePermanentRedirect(canonical)
            /\ pc = "done" => (returned.status = "301" <=> urlquote(path) # canonical)

\* C2 (amended): the same, for a view whose enforce_paths is true.
C2_NonVariantNullIffCanonicalWhenEnforced ==
    (ProductResolved /\ ~is_variant(object) /\ enforce_paths) =>
        LET canonical == product_get_absolute_url(object)
            r         == PD_redirect_if_necessary(enforce_paths, path, object)
        IN  /\ (r = NoResponse) <=> (urlquote(path) = canonical)
            /\ r # NoResponse => r = HttpResponsePermanentRedirect(canonical)
            /\ pc = "done" => (returned.status = "301" <=> urlquote(path) # canonical)

\* C2 witness: a path that equals the canonical URL only after escaping was
\* rendered, not redirected.
C2_Witness ==
    /\ ProductResolved /\ ~is_variant(object) /\ enforce_paths
    /\ path # product_get_absolute_url(object)
    /\ urlquote(path) = product_get_absolute_url(object)
    /\ pc = "done"
    /\ returned.status = "200"

\* C3 (as claimed): get_categories returns the empty sequence for no
\* category, and otherwise a sequence holding the category itself and every
\* one of its ancestors, none twice.
C3_LineageHoldsSelfAndAncestors ==
    CategoryResolved =>
        LET cats == get_categories(category, descendants)
        IN  /\ category = None => cats = <<>>
            /\ category # None =>
                 /\ category \in Range(cats)
                 /\ Range(get_ancestors(category)) \subseteq Range(cats)
                 /\ NoDuplicates(cats)

\* A category request by identifier whose path is not the canonical URL of
\* the category the identifier names (a stale slug).
StaleCategoryRequest ==
    /\ PCV /\ "pk" \in kwargs.keys /\ kwargs.pk \in DOMAIN CategoryTable
    /\ urlquote(path) # category_get_absolute_url(kwargs.pk)

\* In both views a returned redirect ends the request with nothing but the
\* resolving fetch done: no context, no review, alert, listing or search
\* query, no rendering, no signal.
RedirectShortCircuits ==
    /\ returned.status = "301" => pc = "done" /\ OnlyFetched
    /\ (pc = "redirect_if_necessary" /\ PDV
          /\ PD_redirect_if_necessary(enforce_paths, path, object) # NoResponse)
       => OnlyFetched
    /\ (pc = "redirect_if_necessary" /\ PCV
          /\ PC_redirect_if_necessary(enforce_paths, path, category) # NoResponse)
       => OnlyFetched
    /\ (pc \notin {"get_object", "redirect_if_necessary", "done"}) =>
          IF PDV
          THEN PD_redirect_if_necessary(enforce_paths, path, object) = NoResponse
          ELSE PC_redirect_if_necessary(enforce_paths, path, category) = NoResponse

\* C4 (as claimed): a redirect short-circuits the request in both views,
\* and every category request by identifier with a stale slug ends in a
\* permanent redirect to the category's canonical URL with the category
\* fetch as its only entity-store access.
C4_RedirectShortCircuitsAndStaleSlugRedirects ==
    /\ RedirectShortCircuits
    /\ (StaleCategoryRequest /\ pc = "done") =>
          /\ returned = HttpResponsePermanentRedirect(
                            category_get_absolute_url(kwargs.pk))
          /\ log = <<"Category.get(pk)">>

\* C4 (amended): the same, the stale-slug redirect being stated for a view
\* whose enforce_paths is true.
C4_RedirectShortCircuitsAndStaleSlugRedirectsWhenEnforced ==
    /\ RedirectShortCircuits
    /\ (StaleCategoryRequest /\ enforce_paths /\ pc = "done") =>
          /\ returned = HttpResponsePermanentRedirect(
                            category_get_absolute_url(kwargs.pk))
          /\ log = <<"Category.get(pk)">>

\* C4 witness: a stale-slug category request ended in the redirect.
C4_Witness ==
    /\ StaleCategoryRequest /\ enforce_paths /\ pc = "done"
    /\ "category_slug" \in kwargs.keys
    /\ kwargs.category_slug # CategoryTable[kwargs.pk].slug
    /\ returned.status = "301"
    /\ log = <<"Category.get(pk)">>

\* C5: get_object resolves by identifier when one is present (ignoring any
\* slug), else by slug when one is present, else to no category; one fetch
\* is made in the first two modes and none in the third.
C5_ResolutionModes ==
    (PCV /\ pc # "get_object") =>
        IF "pk" \in kwargs.keys
        THEN /\ log[1] = "Category.get(pk)"
             /\ Count(log, Fetches) = 1
             /\ IF kwargs.pk \in DOMAIN CategoryTable
                THEN category = kwargs.pk /\ returned # Http404
                ELSE category = None /\ returned = Http404
        ELSE IF "category_slug" \in kwargs.keys
        THEN /\ log[1] = "Category.get(slug)"
             /\ Count(log, Fetches) = 1
             /\ IF \E c \in DOMAIN CategoryTable : CategoryTable[c].slug = kwargs.category_slug
                THEN /\ category # None
                     /\ CategoryTable[category].slug = kwargs.category_slug
                     /\ returned # Http404
                ELSE category = None /\ returned = Http404
        ELSE /\ category = None
             /\ Count(log, Fetches) = 0
             /\ returned # Http404

\* C5 witness: identifier and slug name different categories, and the
\* identifier's category was resolved.
C5_Witness ==
    /\ PCV /\ pc = "done"
    /\ kwargs.keys = {"pk", "category_slug"}
    /\ kwargs.pk \in DOMAIN CategoryTable
    /\ \E c \in DOMAIN CategoryTable :
          c # kwargs.pk /\ CategoryTable[c].slug = kwargs.category_slug
    /\ category = kwargs.pk

C7_AlertStatus ==
    /\ (PDV /\ ~user.is_authenticated) => "ProductAlert.filter" \notin Range(log)
    /\ (PDV /\ context.built) =>
          IF ~user.is_authenticated
          THEN ~context.has_active_alert
          ELSE /\ context.has_active_alert <=>
                     [user |-> user.id, product |-> object, status |-> ACTIVE]
                         \in AlertTable
               /\ Count(log, {"ProductAlert.filter"}) = 1

\* C7 witness: the context of an authenticated user whose only alert for the
\* product is cancelled was built.
C7_Witness ==
    /\ PDV /\ context.built /\ user.is_authenticated
    /\ \E a \in AlertTable : a.user = user.id /\ a.product = object
    /\ ~context.has_active_alert

\* The lookup of the request matches no entity.
ResolutionFails ==
    IF PDV THEN kwargs.pk \notin DOMAIN ProductTable
    ELSE IF "pk" \in kwargs.keys THEN kwargs.pk \notin DOMAIN CategoryTable
    ELSE IF "category_slug" \in kwargs.keys
         THEN \A c \in DOMAIN CategoryTable : CategoryTable[c].slug # kwargs.category_slug
         ELSE FALSE

\* C8: when resolution fails the request ends with Http404 at the resolve
\* step: one lookup, no canonicalization, context, listing, rendering or
\* signal.
C8_NotFoundIsTerminal ==
    /\ (ResolutionFails /\ pc # "get_object") =>
          pc = "done" /\ returned = Http404 /\ OnlyFetched
    /\ returned = Http404 => ResolutionFails /\ pc = "done" /\ OnlyFetched

\* C8 witness: a category request by a slug no category has ended NotFound.
C8_Witness ==
    /\ PCV /\ kwargs.keys = {"category_slug"} /\ ResolutionFails
    /\ returned = Http404

\* C9: a product request that is rendered sends product_viewed exactly once,
\* after rendering and before returning, with that request's product, user,
\* request and response; one that ends in a redirect or Http404 sends none;
\* ProductCategoryView sends none.
C9_SignalOncePerRenderedProduct ==
    /\ PCV => signals = <<>>
    /\ Len(signals) <= 1
    /\ (PDV /\ pc = "done" /\ returned.status = "200") =>
          /\ Len(signals) = 1
          /\ signals[1] = [sender |-> "ProductDetailView", product |-> object,
                           user |-> user, request |-> [path |-> path, user |-> user],
                           response |-> returned]
          /\ Position(log, "render") < Position(log, "product_viewed.send")
    /\ (PDV /\ pc = "done" /\ returned.status \in {"301", "404"}) => signals = <<>>
    /\ signals # <<>> => response.status = "200" /\ "render" \in Range(log)
    /\ (signals # <<>> /\ pc # "done") => returned = NoResponse
    /\ (PDV /\ pc = "return") => Len(signals) = 1

\* C9 witness: a product request was rendered and returned.
C9_Witness ==
    /\ PDV /\ pc = "done" /\ returned.status = "200"
    /\ Len(signals) = 1

\* C10: with enforce_paths false neither view produces a redirect, and every
\* request whose resolution succeeds builds its context and renders.
C10_NoRedirectWithoutEnforcement ==
    ~enforce_paths =>
        /\ returned.status # "301"
        /\ ProductResolved =>
              PD_redirect_if_necessary(enforce_paths, path, object) = NoResponse
        /\ CategoryResolved =>
              PC_redirect_if_necessary(enforce_paths, path, category) = NoResponse
        /\ (pc = "done" /\ ~ResolutionFails) =>
              /\ returned.status = "200"
              /\ context.built
              /\ "render" \in Range(log)

\* C10 witness: without enforcement a variant at a foreign path was rendered.
C10_Witness ==
    /\ ~enforce_paths /\ pc = "done"
    /\ ProductResolved /\ is_variant(object)
    /\ urlquote(path) # product_get_absolute_url(ProductTable[object].parent)
    /\ returned.status = "200"

====
